---------------------------- MODULE Spec2Model ----------------------------
(* gocover-cobertura: conversion of a Go coverage profile into a Cobertura *)
(* XML report (src/gocover-cobertura.go).                                  *)
(*                                                                         *)
(* Strings are sequences of one-character strings, so that the string and  *)
(* path functions the program calls are computed, not assumed.            *)
EXTENDS Integers, Sequences, FiniteSets, TLC

VARIABLES
    input,      \* the profile text on stdin: a sequence of lines
    pc,         \* position of convert
    profiles,   \* result of ParseProfiles
    idx,        \* index of the range loop of parseProfiles
    coverage,   \* the Coverage accumulator of convert
    heap,       \* backing arrays of the Package.Classes slices
    visitor,    \* the fileVisitor of the last parseFile that walked a file
    processed,  \* file names handed to parseFile so far, in call order
    encodes,    \* number of calls of encoder.Encode
    out,        \* what has been written to the output stream
    loopVarPerIteration, \* range-loop variable semantics of the Go toolchain
    capSlack,   \* extra capacity the allocator's size classes give a grown slice
    run,        \* which run of convert this is (1 or 2)
    firstOut,   \* output of the first run, kept when convert is run again
    strip       \* one call of stripKnownSources: arguments and result

vars == <<input, pc, profiles, idx, coverage, heap, visitor, processed,
          encodes, out, loopVarPerIteration, capSlack, run, firstOut, strip>>

-----------------------------------------------------------------------------
(* Bounds *)

MaxLines == 3

MaxSlack == 1

MaxRoots == 2

-----------------------------------------------------------------------------
(* strings, path/filepath *)

PathSeparator == "/"

WhiteSpace == {" "}

Max(a, b) == IF a > b THEN a ELSE b

HasPrefix(s, prefix) ==
    /\ Len(prefix) <= Len(s)
    /\ SubSeq(s, 1, Len(prefix)) = prefix

HasSuffix(s, suffix) ==
    /\ Len(suffix) <= Len(s)
    /\ SubSeq(s, Len(s) - Len(suffix) + 1, Len(s)) = suffix

TrimPrefix(s, prefix) ==
    IF HasPrefix(s, prefix) THEN SubSeq(s, Len(prefix) + 1, Len(s)) ELSE s

TrimSuffix(s, suffix) ==
    IF HasSuffix(s, suffix) THEN SubSeq(s, 1, Len(s) - Len(suffix)) ELSE s

\* strings.TrimLeft: drop every leading character that is in cutset
TrimLeft(s, cutset) ==
    LET keep == {i \in 1..Len(s) : s[i] \notin cutset}
    IN  IF keep = {} THEN <<>>
        ELSE SubSeq(s, CHOOSE i \in keep : \A j \in keep : i <= j, Len(s))

\* strings.TrimRight: drop every trailing character that is in cutset
TrimRight(s, cutset) ==
    LET keep == {i \in 1..Len(s) : s[i] \notin cutset}
    IN  IF keep = {} THEN <<>>
        ELSE SubSeq(s, 1, CHOOSE i \in keep : \A j \in keep : i >= j)

TrimSpace(s) == TrimRight(TrimLeft(s, WhiteSpace), WhiteSpace)

\* filepath.Split: split immediately after the final separator
Split(path) ==
    LET seps == {i \in 1..Len(path) : path[i] = PathSeparator}
        last == IF seps = {} THEN 0
                ELSE CHOOSE i \in seps : \A j \in seps : i >= j
    IN  [dir |-> SubSeq(path, 1, last), file |-> SubSeq(path, last + 1, Len(path))]

-----------------------------------------------------------------------------
(* stripKnownSources *)

RECURSIVE stripFrom(_, _, _)
stripFrom(sources, fileName, i) ==
    IF i > Len(sources) THEN fileName
    ELSE LET prefix == TrimSuffix(sources[i].Path, <<PathSeparator>>)
                         \o <<PathSeparator>>
         IN  IF HasPrefix(fileName, prefix)
             THEN TrimPrefix(fileName, prefix)
             ELSE stripFrom(sources, fileName, i + 1)

\* stripKnownSources that keeps stripping with the roots after the first match
RECURSIVE stripEvery(_, _, _)
stripEvery(sources, fileName, i) ==
    IF i > Len(sources) THEN fileName
    ELSE LET prefix == TrimSuffix(sources[i].Path, <<PathSeparator>>)
                         \o <<PathSeparator>>
         IN  stripEvery(sources, TrimPrefix(fileName, prefix), i + 1)

stripKnownSourcesEvery(sources, fileName) == stripEvery(sources, fileName, 1)

stripKnownSources(sources, fileName) == stripFrom(sources, fileName, 1)

-----------------------------------------------------------------------------
(* The environment: source roots, the source tree, the profile text *)

\* build.Default.SrcDirs(): the ordered source roots
SrcDirs == << <<"/", "g">>, <<"/", "h">> >>

NoRecv == [HasRecv |-> FALSE, RecvText |-> <<>>]

Recv(text) == [HasRecv |-> TRUE, RecvText |-> text]

\* a function declaration as the syntax parser reports it: name, the source
\* text of the receiver type (if any), first and last line
FuncDecl(name, recv, from, to) ==
    [Name |-> name, Recv |-> recv, StartLine |-> from, EndLine |-> to]

FileA == <<"p", "/", "a">>
FileB == <<"p", "/", "b">>
FileD == <<"p", "/", "d">>
FileC == <<"q", "/", "c">>
FileS == <<"q", "/", "s">>
FileM == <<"m">>
FileR == <<"r">>

\* The source tree: absolute path -> what parsing and reading the file give.
\* "syntax": parser.ParseFile fails; "unreadable": ioutil.ReadFile fails.
Tree ==
    (<<"/", "g", "/">> \o FileA) :>
        [status |-> "ok",
         decls  |-> << FuncDecl("f", NoRecv, 3, 5),
                       FuncDecl("g", Recv(<<"*", "W">>), 7, 9),
                       FuncDecl("h", Recv(<<"W">>), 9, 11) >>]
 @@ (<<"/", "h", "/">> \o FileB) :>
        [status |-> "ok",
         decls  |-> << FuncDecl("k", Recv(<<"*", " ", "V">>), 1, 2) >>]
 @@ (<<"/", "g", "/">> \o FileD) :>
        [status |-> "ok", decls |-> << FuncDecl("e", NoRecv, 2, 4) >>]
 @@ (<<"/", "g", "/">> \o FileC) :>
        [status |-> "ok", decls |-> << FuncDecl("n", NoRecv, 1, 1) >>]
 @@ (<<"/", "h", "/">> \o FileC) :>
        [status |-> "ok", decls |-> << FuncDecl("shadowed", NoRecv, 1, 1) >>]
 @@ (<<"/", "g", "/">> \o FileS) :>
        [status |-> "syntax", decls |-> <<>>]
 @@ (<<"/", "h", "/">> \o FileR) :>
        [status |-> "unreadable", decls |-> << FuncDecl("u", NoRecv, 1, 1) >>]

ModeLine == [kind |-> "mode", file |-> <<>>, startLine |-> 0, endLine |-> 0, count |-> 0]

BadLine == [kind |-> "bad", file |-> <<>>, startLine |-> 0, endLine |-> 0, count |-> 0]

BadNumber == [kind |-> "badnum", file |-> FileA, startLine |-> 0, endLine |-> 0, count |-> 0]

BlockLine(f, from, to, n) ==
    [kind |-> "block", file |-> f, startLine |-> from, endLine |-> to, count |-> n]

\* the lines a profile text is made of
ProfileLines ==
    { ModeLine, BadLine, BadNumber,
      BlockLine(FileA, 3, 5, 1), BlockLine(FileA, 5, 9, 0),
      BlockLine(FileB, 1, 2, 2), BlockLine(FileD, 2, 4, 1),
      BlockLine(FileC, 1, 1, 1),
      BlockLine(FileS, 1, 1, 1), BlockLine(FileM, 1, 1, 1),
      BlockLine(FileR, 1, 1, 1) }

SeqsUpTo(S, n) == UNION { [1..k -> S] : k \in 0..n }

-----------------------------------------------------------------------------
(* Profile Parser and Source Locator *)

ProfileBlock(l) == [StartLine |-> l.startLine, EndLine |-> l.endLine, Count |-> l.count]

\* add one block line to the per-file records, keeping first-appearance order
AddBlock(profs, l) ==
    IF \E i \in DOMAIN profs : profs[i].FileName = l.file
    THEN [i \in DOMAIN profs |->
             IF profs[i].FileName = l.file
             THEN [profs[i] EXCEPT !.Blocks = Append(@, ProfileBlock(l))]
             ELSE profs[i]]
    ELSE Append(profs, [FileName |-> l.file, Blocks |-> <<ProfileBlock(l)>>])

RECURSIVE GroupBlocks(_, _)
GroupBlocks(profs, lines) ==
    IF lines = <<>> THEN profs
    ELSE GroupBlocks(AddBlock(profs, Head(lines)), Tail(lines))

\* ParseProfiles: an optional mode header, then one block per line; an empty
\* text, a line outside the grammar or a bad number is an error
ParseProfiles(text) ==
    LET body == IF text # <<>> /\ Head(text).kind = "mode" THEN Tail(text) ELSE text
    IN  IF text = <<>> \/ \E i \in DOMAIN body : body[i].kind # "block"
        THEN [err |-> TRUE, profiles |-> <<>>]
        ELSE [err |-> FALSE, profiles |-> GroupBlocks(<<>>, body)]

\* findFile: the first root under which root + separator + reference exists
findFile(fileName) ==
    LET hits == {i \in DOMAIN SrcDirs :
                    (SrcDirs[i] \o <<PathSeparator>> \o fileName) \in DOMAIN Tree}
    IN  IF hits = {} THEN [err |-> TRUE, path |-> <<>>]
        ELSE [err  |-> FALSE,
              path |-> SrcDirs[CHOOSE i \in hits : \A j \in hits : i <= j]
                         \o <<PathSeparator>> \o fileName]

-----------------------------------------------------------------------------
(* Slices of Class values: Package.Classes *)

\* a slice header: backing array (0: none), length, capacity
EmptySlice == [arr |-> 0, len |-> 0, cap |-> 0]

\* the elements a slice shows
Contents(h, s) == IF s.len = 0 THEN <<>> ELSE SubSeq(h[s.arr].elems, 1, s.len)

\* capacity of the array the runtime allocates when a full slice grows
GrowCap(oldCap, needed) == Max(needed, 2 * oldCap) + capSlack

\* append(s, x): write in place when capacity is left, else copy to a new array
AppendSlice(h, s, x) ==
    IF s.len < s.cap
    THEN LET a == h[s.arr]
             elems == IF Len(a.elems) > s.len
                      THEN [a.elems EXCEPT ![s.len + 1] = x]
                      ELSE Append(a.elems, x)
         IN  [heap  |-> [h EXCEPT ![s.arr] = [a EXCEPT !.elems = elems]],
              slice |-> [s EXCEPT !.len = s.len + 1]]
    ELSE [heap  |-> Append(h, [cap   |-> GrowCap(s.cap, s.len + 1),
                               elems |-> Append(Contents(h, s), x)]),
          slice |-> [arr |-> Len(h) + 1, len |-> s.len + 1,
                     cap |-> GrowCap(s.cap, s.len + 1)]]

RECURSIVE AppendAll(_, _, _)
AppendAll(h, s, xs) ==
    IF xs = <<>> THEN [heap |-> h, slice |-> s]
    ELSE LET r == AppendSlice(h, s, Head(xs))
         IN  AppendAll(r.heap, r.slice, Tail(xs))

-----------------------------------------------------------------------------
(* fileVisitor *)

\* recvName without the strings.TrimLeft of the indirection marker
recvNameKeepStar(n) ==
    IF ~n.Recv.HasRecv THEN <<"-">>
    ELSE TrimSpace(n.Recv.RecvText)

\* fileVisitor.recvName
recvName(n) ==
    IF ~n.Recv.HasRecv THEN <<"-">>
    ELSE TrimSpace(TrimLeft(n.Recv.RecvText, {"*"}))

RECURSIVE LinesOfBlocks(_)
LinesOfBlocks(blocks) ==
    IF blocks = <<>> THEN <<>>
    ELSE LET b == Head(blocks)
         IN  [i \in 1..(b.EndLine - b.StartLine + 1) |->
                 [Number |-> b.StartLine + i - 1, Hits |-> b.Count]]
             \o LinesOfBlocks(Tail(blocks))

\* method that appends, for every block of the file's profile overlapping
\* the declaration, one Line per line of the block
methodWithBlockLines(v, n) ==
    LET blocks == profiles[CHOOSE k \in DOMAIN profiles :
                              profiles[k].FileName = v.name].Blocks
        over   == SelectSeq(blocks,
                     LAMBDA b : b.StartLine <= n.EndLine /\ n.StartLine <= b.EndLine)
    IN  [Name |-> n.Name, Lines |-> LinesOfBlocks(over)]

\* fileVisitor.method
method(v, n) == [Name |-> n.Name, Lines |-> <<>>]

\* fileVisitor.class: the visitor with the class of n's owner in its map
class(v, n) ==
    LET className == recvName(n)
    IN  IF className \in DOMAIN v.classes THEN v
        ELSE [v EXCEPT !.classes =
                 [k \in DOMAIN v.classes \cup {className} |->
                     IF k = className
                     THEN [Name |-> className, Filename |-> v.name,
                           Methods |-> <<>>, Lines |-> <<>>]
                     ELSE v.classes[k]]]

\* fileVisitor.Visit on a *ast.FuncDecl
Visit(v, n) ==
    LET v1 == class(v, n)
        className == recvName(n)
        m  == method(v, n)
    IN  [v1 EXCEPT !.classes[className] =
            [@ EXCEPT !.Methods = Append(@, m), !.Lines = @ \o m.Lines]]

\* ast.Walk: Visit reaches the file's function declarations in source order
RECURSIVE Walk(_, _)
Walk(v, decls) ==
    IF decls = <<>> THEN v ELSE Walk(Visit(v, Head(decls)), Tail(decls))

\* the orders in which a range over a map with these keys can yield them
MapOrders(keys) ==
    {o \in [1..Cardinality(keys) -> keys] : \A i, j \in DOMAIN o : i # j => o[i] # o[j]}

-----------------------------------------------------------------------------
(* Coverage.parseFile, Coverage.parseProfiles *)

\* lookupPackage that stops at the first entry whose name matches
lookupPackageFirst(pkgs, pkgPath) ==
    LET matches == {i \in DOMAIN pkgs : pkgs[i].Name = pkgPath}
    IN  IF matches = {} THEN [Name |-> pkgPath, Classes |-> EmptySlice]
        ELSE pkgs[CHOOSE i \in matches : \A j \in matches : i <= j]

\* the Package parseFile adds classes to: a copy of an entry of cov.Packages
\* when a name matched, else a new one.  pkg = &p points at the range
\* variable: with one variable per iteration it holds the last entry that
\* matched, with one variable per loop it holds the last entry of the list.
lookupPackage(pkgs, pkgPath) ==
    LET matches == {i \in DOMAIN pkgs : pkgs[i].Name = pkgPath}
    IN  IF matches = {} THEN [Name |-> pkgPath, Classes |-> EmptySlice]
        ELSE IF loopVarPerIteration
             THEN pkgs[CHOOSE i \in matches : \A j \in matches : i >= j]
             ELSE pkgs[Len(pkgs)]

\* whether parseFile returns an error for this file reference
parseFileFails(fileName) ==
    \/ findFile(fileName).err
    \/ Tree[findFile(fileName).path].status # "ok"

parseFile(fileName) ==
    IF parseFileFails(fileName)
    THEN UNCHANGED <<coverage, heap, visitor>>
    ELSE LET pkgPath == TrimRight(Split(fileName).dir, {PathSeparator})
             pkg == lookupPackage(coverage.Packages, pkgPath)
             v   == Walk([name |-> fileName, classes |-> <<>>],
                         Tree[findFile(fileName).path].decls)
         IN  \E order \in MapOrders(DOMAIN v.classes) :
                LET r == AppendAll(heap, pkg.Classes,
                                   [i \in DOMAIN order |-> v.classes[order[i]]])
                IN  /\ heap' = r.heap
                    /\ coverage' = [coverage EXCEPT !.Packages =
                                       Append(@, [pkg EXCEPT !.Classes = r.slice])]
                    /\ visitor' = v

\* a loop that stops one profile early
loopDoneEarly == idx >= Len(profiles)

\* the range loop of parseProfiles has yielded every profile
loopDone == idx > Len(profiles)

\* a loop that returns at the first parseFile error
parseProfiles_NextAborting ==
    /\ pc = "files"
    /\ ~loopDone
    /\ parseFile(profiles[idx].FileName)
    /\ processed' = Append(processed, profiles[idx].FileName)
    /\ idx' = IF parseFileFails(profiles[idx].FileName)
              THEN Len(profiles) + 1 ELSE idx + 1
    /\ UNCHANGED <<input, pc, profiles, encodes, out, loopVarPerIteration,
                   capSlack, run, firstOut, strip>>

\* one iteration of the loop of parseProfiles
parseProfiles_Next ==
    /\ pc = "files"
    /\ ~loopDone
    /\ parseFile(profiles[idx].FileName)
    /\ processed' = Append(processed, profiles[idx].FileName)
    /\ idx' = idx + 1
    /\ UNCHANGED <<input, pc, profiles, encodes, out, loopVarPerIteration,
                   capSlack, run, firstOut, strip>>

parseProfiles_Return ==
    /\ pc = "files"
    /\ loopDone
    /\ pc' = "header"
    /\ UNCHANGED <<input, profiles, idx, coverage, heap, visitor, processed,
                   encodes, out, loopVarPerIteration, capSlack, run, firstOut,
                   strip>>

-----------------------------------------------------------------------------
(* convert *)

NoVisitor == [name |-> <<>>, classes |-> <<>>]

NoCoverage == [Sources |-> <<>>, Packages |-> <<>>, Timestamp |-> "unset"]

Chunk(kind, doc) == [kind |-> kind, doc |-> doc]

\* the document the encoder writes for the accumulator
Marshal(cov, h) ==
    [Timestamp |-> cov.Timestamp,
     Sources   |-> cov.Sources,
     Packages  |-> [i \in DOMAIN cov.Packages |->
                       [Name    |-> cov.Packages[i].Name,
                        Classes |-> Contents(h, cov.Packages[i].Classes)]]]

\* convert that ignores the error of ParseProfiles
convert_ParseUnchecked ==
    /\ pc = "start"
    /\ pc' = "files"
    /\ profiles' = ParseProfiles(input).profiles
    /\ idx' = 1
    /\ coverage' = [Sources   |-> [i \in DOMAIN SrcDirs |-> [Path |-> SrcDirs[i]]],
                    Packages  |-> <<>>,
                    Timestamp |-> "now"]
    /\ UNCHANGED <<input, heap, visitor, processed, encodes, out,
                   loopVarPerIteration, capSlack, run, firstOut, strip>>

\* ParseProfiles, the panic on its error, the construction of the
\* accumulator and the first statement of parseProfiles
convert_Parse ==
    /\ pc = "start"
    /\ LET r == ParseProfiles(input)
       IN  IF r.err
           THEN /\ pc' = "panic_parse"
                /\ UNCHANGED <<profiles, idx, coverage>>
           ELSE /\ pc' = "files"
                /\ profiles' = r.profiles
                /\ idx' = 1
                /\ coverage' = [Sources   |-> [i \in DOMAIN SrcDirs |-> [Path |-> SrcDirs[i]]],
                                Packages  |-> <<>>,
                                Timestamp |-> "now"]
    /\ UNCHANGED <<input, heap, visitor, processed, encodes, out,
                   loopVarPerIteration, capSlack, run, firstOut, strip>>

convert_Header ==
    /\ pc = "header"
    /\ out' = Append(out, Chunk("header", <<>>))
    /\ pc' = "doctype"
    /\ UNCHANGED <<input, profiles, idx, coverage, heap, visitor, processed,
                   encodes, loopVarPerIteration, capSlack, run, firstOut, strip>>

convert_Doctype ==
    /\ pc = "doctype"
    /\ out' = Append(out, Chunk("doctype", <<>>))
    /\ pc' = "encode"
    /\ UNCHANGED <<input, profiles, idx, coverage, heap, visitor, processed,
                   encodes, loopVarPerIteration, capSlack, run, firstOut, strip>>

\* encoder.Encode: writes the document, or fails on an output fault and
\* convert panics
convert_Encode ==
    /\ pc = "encode"
    /\ encodes' = encodes + 1
    /\ \/ /\ out' = Append(out, Chunk("body", Marshal(coverage, heap)))
          /\ pc' = "newline"
       \/ /\ out' = out
          /\ pc' = "panic_encode"
    /\ UNCHANGED <<input, profiles, idx, coverage, heap, visitor, processed,
                   loopVarPerIteration, capSlack, run, firstOut, strip>>

convert_Newline ==
    /\ pc = "newline"
    /\ out' = Append(out, Chunk("newline", <<>>))
    /\ pc' = "done"
    /\ UNCHANGED <<input, profiles, idx, coverage, heap, visitor, processed,
                   encodes, loopVarPerIteration, capSlack, run, firstOut, strip>>

\* main is run a second time on the same profile text and source tree
main_Again ==
    /\ pc = "done"
    /\ run = 1
    /\ run' = 2
    /\ firstOut' = out
    /\ pc' = "start"
    /\ profiles' = <<>>
    /\ idx' = 0
    /\ coverage' = NoCoverage
    /\ heap' = <<>>
    /\ visitor' = NoVisitor
    /\ processed' = <<>>
    /\ encodes' = 0
    /\ out' = <<>>
    /\ UNCHANGED <<input, loopVarPerIteration, capSlack, strip>>

NoStrip == [sources |-> <<>>, fileName |-> <<>>, result |-> <<>>, done |-> FALSE]

Init ==
    /\ input \in SeqsUpTo(ProfileLines, MaxLines)
    /\ loopVarPerIteration \in BOOLEAN
    /\ capSlack \in 0..MaxSlack
    /\ pc = "start"
    /\ profiles = <<>>
    /\ idx = 0
    /\ coverage = NoCoverage
    /\ heap = <<>>
    /\ visitor = NoVisitor
    /\ processed = <<>>
    /\ encodes = 0
    /\ out = <<>>
    /\ run = 1
    /\ firstOut = <<>>
    /\ strip = NoStrip

Next ==
    \/ convert_Parse
    \/ parseProfiles_Next
    \/ parseProfiles_Return
    \/ convert_Header
    \/ convert_Doctype
    \/ convert_Encode
    \/ convert_Newline

Spec == Init /\ [][Next]_vars

NextTwice == Next \/ main_Again

SpecTwice == Init /\ [][NextTwice]_vars

-----------------------------------------------------------------------------
(* stripKnownSources applied to drawn arguments *)

Root(path) == [Path |-> path]

RootPool ==
    { <<"a">>, <<"a", "/">>, <<"a", "/", "b">>, <<"a", "/", "b", "/">>,
      <<"b">>, <<"/">>, <<"a", "/", "/">> }

FilePool ==
    { <<"a", "/", "b", "/", "c">>, <<"a", "/", "c">>, <<"b", "/", "c">>,
      <<"c">>, <<"a">>, <<"a", "/">>, <<"a", "b", "/", "c">>, <<"/", "c">>,
      <<"a", "/", "/", "c">>, <<>> }

InitStrip ==
    /\ strip \in [sources  : SeqsUpTo({Root(r) : r \in RootPool}, MaxRoots),
                  fileName : FilePool,
                  result   : {<<>>},
                  done     : {FALSE}]
    /\ input = <<>>
    /\ loopVarPerIteration = TRUE
    /\ capSlack = 0
    /\ pc = "start"
    /\ profiles = <<>>
    /\ idx = 0
    /\ coverage = NoCoverage
    /\ heap = <<>>
    /\ visitor = NoVisitor
    /\ processed = <<>>
    /\ encodes = 0
    /\ out = <<>>
    /\ run = 1
    /\ firstOut = <<>>

strip_Call ==
    /\ ~strip.done
    /\ strip' = [strip EXCEPT !.result = stripKnownSources(strip.sources, strip.fileName),
                              !.done = TRUE]
    /\ UNCHANGED <<input, pc, profiles, idx, coverage, heap, visitor, processed,
                   encodes, out, loopVarPerIteration, capSlack, run, firstOut>>

NextStrip == strip_Call

SpecStrip == InitStrip /\ [][NextStrip]_vars

-----------------------------------------------------------------------------
(* Properties *)

\* the packages of the accumulator with their Classes slices read out
Packages == Marshal(coverage, heap).Packages

\* every Class the accumulator shows, over all packages
ReportClasses ==
    UNION { {Packages[i].Classes[j] : j \in DOMAIN Packages[i].Classes} :
            i \in DOMAIN Packages }

\* the profiles parseProfiles has finished with
Handled ==
    IF pc = "files" THEN 1..(idx - 1)
    ELSE IF pc \in {"header", "doctype", "encode", "newline", "done", "panic_encode"}
         THEN DOMAIN profiles
         ELSE {}

\* the declarations of a file reference that parses
DeclsOf(fileName) ==
    LET ds == Tree[findFile(fileName).path].decls
    IN  {ds[i] : i \in DOMAIN ds}

\* C1: at most one Package entry per distinct package name in cov.Packages
C1_OnePackagePerName ==
    \A i, j \in DOMAIN coverage.Packages :
        i # j => coverage.Packages[i].Name # coverage.Packages[j].Name

Overlaps(b, d) == b.StartLine <= d.EndLine /\ d.StartLine <= b.EndLine

\* C2: once a file is processed, every line of every profile block that
\* overlaps a method's declared range is a Line, with the block's hit count,
\* of that Method and of its Class
C2_BlockLinesAppended ==
    \A k \in Handled :
        ~parseFileFails(profiles[k].FileName) =>
            \A d \in DeclsOf(profiles[k].FileName) :
            \A bi \in DOMAIN profiles[k].Blocks :
                LET b == profiles[k].Blocks[bi]
                IN  Overlaps(b, d) =>
                    \A l \in b.StartLine..b.EndLine :
                    \E c \in ReportClasses :
                        /\ c.Filename = profiles[k].FileName
                        /\ \E li \in DOMAIN c.Lines :
                              c.Lines[li] = [Number |-> l, Hits |-> b.Count]
                        /\ \E mi \in DOMAIN c.Methods :
                              /\ c.Methods[mi].Name = d.Name
                              /\ \E li \in DOMAIN c.Methods[mi].Lines :
                                    c.Methods[mi].Lines[li] = [Number |-> l, Hits |-> b.Count]

\* C3: when ParseProfiles reports an error nothing is ever written to out,
\* and whatever is written is written after the profiles were parsed
C3_NoOutputUnlessParsed ==
    /\ ParseProfiles(input).err => out = <<>>
    /\ out # <<>> => pc \notin {"start", "panic_parse"}

C3_Witness ==
    /\ pc = "panic_parse"
    /\ \E i \in DOMAIN input : input[i].kind \in {"bad", "badnum"}
    /\ out = <<>>

\* a file reference that parseFile turns into Classes
Valid(fileName) == ~parseFileFails(fileName)

\* C4: a profile entry whose file is not found or does not parse adds no
\* Package and no Class and the loop goes on: every entry is handed to
\* parseFile, every valid entry's declarations are in the report, and the
\* document written is that report
C4_FileErrorsSkipped ==
    /\ pc = "panic_parse" => ParseProfiles(input).err
    /\ pc \in {"header", "doctype", "encode", "newline", "done", "panic_encode"}
          => Len(processed) = Len(profiles)
    /\ Len(coverage.Packages) = Cardinality({k \in Handled : Valid(profiles[k].FileName)})
    /\ \A k \in Handled :
          LET f == profiles[k].FileName
          IN  IF Valid(f)
              THEN \A d \in DeclsOf(f) :
                      \E c \in ReportClasses :
                          /\ c.Filename = f
                          /\ \E mi \in DOMAIN c.Methods : c.Methods[mi].Name = d.Name
              ELSE \A c \in ReportClasses : c.Filename # f
    /\ pc = "done" => out[3] = Chunk("body", Marshal(coverage, heap))

C4_Witness ==
    /\ pc = "done"
    /\ \E i, j, k \in DOMAIN profiles :
          /\ i < j /\ j < k
          /\ findFile(profiles[i].FileName).err
          /\ Valid(profiles[j].FileName)
          /\ ~findFile(profiles[k].FileName).err
          /\ ~Valid(profiles[k].FileName)
    /\ \E c \in ReportClasses : c.Filename \in {profiles[k].FileName : k \in DOMAIN profiles}

\* C5: a second run of convert on the same profile text and source tree,
\* with the same timestamp, writes the same output as the first
C5_SameOutputTwice ==
    (run = 2 /\ pc = "done") => out = firstOut

\* the owner name of a declaration: "-" for a function, else the receiver
\* type without indirection marker and blanks
OwnerName(d) ==
    IF ~d.Recv.HasRecv THEN <<"-">>
    ELSE SelectSeq(d.Recv.RecvText, LAMBDA ch : ch \notin {"*", " "})

\* C6: after a file is walked its declarations are partitioned by owner
\* name: one Class per owner name, named after it, holding exactly the
\* declarations of that owner, each once, and the Package appended for the
\* file holds each of these Classes once
C6_ClassesPartitionDeclarations ==
    visitor.name # <<>> =>
        LET ds   == Tree[findFile(visitor.name).path].decls
            cs   == visitor.classes
            last == Packages[Len(Packages)].Classes
        IN  /\ DOMAIN cs = {OwnerName(ds[i]) : i \in DOMAIN ds}
            /\ \A k \in DOMAIN cs :
                  /\ cs[k].Name = k
                  /\ cs[k].Filename = visitor.name
                  /\ [i \in DOMAIN cs[k].Methods |-> cs[k].Methods[i].Name]
                       = [i \in DOMAIN SelectSeq(ds, LAMBDA d : OwnerName(d) = k) |->
                             SelectSeq(ds, LAMBDA d : OwnerName(d) = k)[i].Name]
                  /\ Cardinality({j \in DOMAIN last : last[j] = cs[k]}) = 1
            /\ Cardinality({j \in DOMAIN last : last[j].Filename = visitor.name})
                 = Cardinality(DOMAIN cs)

C6_Witness ==
    /\ visitor.name = FileA
    /\ Len(visitor.classes[<<"W">>].Methods) = 2
    /\ Len(visitor.classes[<<"-">>].Methods) = 1

\* C7: profiles are handed to parseFile one at a time in the order the
\* parser returned them, Encode is called at most once and only after the
\* last profile, a finished run has called it once, and the accumulator
\* does not change once writing has begun
C7_OrderedThenSerializedOnce ==
    [][ /\ \A k \in DOMAIN processed' : processed'[k] = profiles'[k].FileName
        /\ pc' = "files" => Len(processed') = idx' - 1
        /\ encodes' <= 1
        /\ (encodes' = 1 \/ out' # <<>>) => Len(processed') = Len(profiles')
        /\ pc' = "done" => encodes' = 1 /\ Len(processed') = Len(profiles')
        /\ pc \in {"header", "doctype", "encode", "newline", "done"}
              => coverage' = coverage /\ heap' = heap /\ processed' = processed
      ]_vars

C7_Witness ==
    /\ pc = "done"
    /\ Len(profiles) >= 2
    /\ encodes = 1

\* the prefix stripKnownSources tests for a root: the root, less one
\* trailing separator if it has one, plus a separator
RootPrefix(root) ==
    (IF root # <<>> /\ root[Len(root)] = PathSeparator
     THEN SubSeq(root, 1, Len(root) - 1) ELSE root) \o <<PathSeparator>>

\* the roots of the call whose prefix the file name starts with
MatchingRoots ==
    {i \in DOMAIN strip.sources :
        HasPrefix(strip.fileName, RootPrefix(strip.sources[i].Path))}

\* C8: stripKnownSources returns the file name less the prefix of the first
\* root in list order whose prefix it starts with, a root with a trailing
\* separator counting like the root without it, and returns the file name
\* itself when no root matches
C8_StripFirstMatchingRoot ==
    strip.done =>
        IF MatchingRoots = {} THEN strip.result = strip.fileName
        ELSE LET first == CHOOSE i \in MatchingRoots : \A j \in MatchingRoots : i <= j
             IN  RootPrefix(strip.sources[first].Path) \o strip.result = strip.fileName

C8_Witness ==
    /\ strip.done
    /\ strip.sources = << Root(<<"a", "/">>), Root(<<"a", "/", "b">>) >>
    /\ strip.fileName = <<"a", "/", "b", "/", "c">>
    /\ strip.result = <<"b", "/", "c">>

\* C9: within a Class no line number occurs twice in its Lines, in the
\* visitor's classes and in every Class of the accumulator
C9_ClassLinesUnique ==
    \A c \in ReportClasses \cup {visitor.classes[k] : k \in DOMAIN visitor.classes} :
        \A i, j \in DOMAIN c.Lines :
            i # j => c.Lines[i].Number # c.Lines[j].Number

C9_Witness ==
    /\ pc = "done"
    /\ \E c \in ReportClasses : Len(c.Methods) >= 2
    /\ \E k \in DOMAIN profiles : Len(profiles[k].Blocks) >= 2

\* C10: a parseFile call that fails leaves cov.Packages as it was, one that
\* succeeds appends one Package and leaves what the earlier entries show
\* unchanged, and the number of entries is the number of successful calls
C10_PackagesAppendOnly ==
    [][ /\ (pc = "files" /\ idx' = idx + 1) =>
              LET old == Packages
                  new == Marshal(coverage', heap').Packages
              IN  IF parseFileFails(profiles[idx].FileName)
                  THEN new = old
                  ELSE /\ Len(new) = Len(old) + 1
                       /\ SubSeq(new, 1, Len(old)) = old
        /\ pc' \in {"header", "doctype", "encode", "newline", "done"} =>
              Len(coverage'.Packages)
                = Cardinality({k \in DOMAIN profiles' : Valid(profiles'[k].FileName)})
      ]_vars

C10_Witness ==
    /\ pc = "done"
    /\ Len(coverage.Packages) = 2
    /\ Len(profiles) = 3
    /\ coverage.Packages[1].Name = coverage.Packages[2].Name
    /\ coverage.Packages[1].Classes.arr = coverage.Packages[2].Classes.arr

=============================================================================
